---- MODULE Spec2Model ----
(***************************************************************************)
(* Model of event_tracker/server.py: the EventTracker state (companies,    *)
(* contacts, last_check), its JSON snapshot on disk, and the three tools   *)
(* of handle_call_tool (scan-event-website, enrich-contacts, get-changes). *)
(*                                                                         *)
(* A handler that awaits an external call is split at its awaits; `pc` is  *)
(* the position of the handler that is running.  In Spec and SpecStore the *)
(* host serialises tool calls: a new call starts only when pc = "idle".    *)
(* In SpecConc the host dispatches a scan while an enrich run is suspended.*)
(***************************************************************************)
EXTENDS Integers, Sequences, FiniteSets, TLC

\* ---------------------------------------------------------------- bounds
MaxClock == 1      \* readings of datetime.now() range over 0..MaxClock
MaxPage == 1       \* companies on the event page (sponsors, then attendees)
MaxPeople == 1     \* people in one search_people answer
MaxCalls == 3      \* tool calls the host makes in one behaviour
MaxFaults == 1     \* snapshot writes that fail or are cut short in one behaviour

Names == {"A", "B"}
Ids == {"p1", "p2"}

VARIABLES
    companies,      \* tracker.companies: insertion-ordered dict, as a sequence of Company
    contacts,       \* tracker.contacts: dict keyed by apollo_id, as a set of Contact
    last_check,     \* tracker.last_check
    file,           \* event_data.json on disk
    status,         \* "up": tracker loaded; "down": process stopped; "broken": load_data raised
    clock,          \* the last reading of datetime.now()
    pc,             \* position of the running handler, "idle" when none runs
    idx,            \* enrich-contacts: index of the company the for loop is at
    new_contacts,   \* enrich-contacts: the local list new_contacts (apollo ids)
    at_start,       \* history: the keys of the tracker when the last tool call began
    log,            \* history: external calls made by the current or last handler
    result,         \* what the last handler returned or raised
    request,        \* the tool call being handled, or the last one handled
    was_set,        \* history: line 194 has run, in this process or an earlier one
    calls_left,     \* tool calls the host may still make
    faults_left     \* snapshot writes that may still fail

vars == <<companies, contacts, last_check, file, status, clock, pc, idx,
          new_contacts, at_start, log, result, request, was_set, calls_left,
          faults_left>>

\* ------------------------------------------------------------ timestamps
\* A timestamp is a datetime object (k = "dt") or, once it went through the
\* JSON snapshot, its str() form (k = "str"); None has k = "none".
NoneTs == [k |-> "none", t |-> 0]

Dt(n) == [k |-> "dt", t |-> n]

\* json.dumps(..., default=str): a datetime becomes its string, a string and
\* None are written as they are.
JsonTs(ts) == IF ts.k = "dt" THEN [k |-> "str", t |-> ts.t] ELSE ts

\* --------------------------------------------------------------- records
Keys(cs) == {cs[i].name : i \in 1..Len(cs)}

IndexOf(cs, n) == CHOOSE i \in 1..Len(cs) : cs[i].name = n

ContactIds(ct) == {c.apollo_id : c \in ct}

Range(s) == {s[i] : i \in 1..Len(s)}

\* --------------------------------------------------------------- storage
EmptyFile == [kind |-> "absent", companies |-> <<>>, contacts |-> {}, last_check |-> NoneTs]

\* A file opened for writing and not written to the end: empty or a prefix
\* of the JSON text.
TornFile == [kind |-> "torn", companies |-> <<>>, contacts |-> {}, last_check |-> NoneTs]

JsonCompany(c) == [c EXCEPT !.first_seen = JsonTs(c.first_seen),
                            !.last_seen = JsonTs(c.last_seen)]

\* The data dict of save_data, serialised.
Snapshot(cs, ct, lc) ==
    [kind |-> "json",
     companies |-> [i \in 1..Len(cs) |-> JsonCompany(cs[i])],
     contacts |-> ct,
     last_check |-> JsonTs(lc)]

\* Path.write_text opens the file with mode "w" (truncating it) and then
\* writes.  The outcomes: written; open() raises, file untouched; write()
\* raises after the truncation; the process dies after the truncation.
SaveOutcomes == {"written", "open_failed", "write_failed", "killed"}

save_data(f, cs, ct, lc, outcome) ==
    CASE outcome = "written" -> Snapshot(cs, ct, lc)
      [] outcome = "open_failed" -> f
      [] OTHER -> TornFile

\* ----------------------------------------------------------- extraction
\* The entries a page can hold: here a sponsor links to w1, an attendee to
\* w2, so a company seen again in the other list differs in website and type.
Entry == {[name |-> n, website |-> k[1], type |-> k[2]] :
            n \in Names, k \in {<<"w1", "sponsor">>, <<"w2", "attendee">>}}

\* soup.select('.sponsor') entries come first, '.attendee' entries after.
SponsorsFirst(p) ==
    \A i \in 1..Len(p) : \A j \in 1..Len(p) :
        (i < j /\ p[i].type = "attendee") => p[j].type = "attendee"

RECURSIVE SeqsUpTo(_, _)
SeqsUpTo(S, n) ==
    IF n = 0 THEN {<<>>}
    ELSE LET shorter == SeqsUpTo(S, n - 1)
         IN  shorter \cup {Append(s, x) : s \in {t \in shorter : Len(t) = n - 1}, x \in S}

Pages == {p \in SeqsUpTo(Entry, MaxPage) : SponsorsFirst(p)}

\* The readings of datetime.now() one scan makes: two per company in
\* extract_companies (r[1..2n]), then `now` in the handler (r[2n+1]).  The
\* clock never goes back; here it ticks at most once while the page is
\* extracted (after reading k) and at most once more before `now`.
Later(t) == {t, IF t < MaxClock THEN t + 1 ELSE t}

Readings(from, n) ==
    UNION {{[i \in 1..(2 * n + 1) |->
                IF i = 2 * n + 1 THEN now ELSE IF i <= k THEN from ELSE mid] :
              now \in Later(IF k < 2 * n THEN mid ELSE from)} :
           k \in 0..(2 * n), mid \in Later(from)}

\* extract_companies: one Company per entry, first_seen and last_seen from
\* two successive calls of datetime.now().
extract_companies(page, r) ==
    [i \in 1..Len(page) |->
        [name |-> page[i].name, website |-> page[i].website, type |-> page[i].type,
         first_seen |-> Dt(r[2 * i - 1]), last_seen |-> Dt(r[2 * i])]]

\* --------------------------------------------------------------- results
NoResult == [op |-> "none", kind |-> "none", n |-> 0, names |-> <<>>,
             added |-> {}, removed |-> {}]

Returned(op, kind, n, names) == [NoResult EXCEPT !.op = op, !.kind = kind, !.n = n, !.names = names]

\* An exception that leaves handle_call_tool.
Raised(op, exc) == [NoResult EXCEPT !.op = op, !.kind = exc]

\* The kinds of result that are an exception: a missing argument or an
\* unknown tool, the unbound url, a failed extraction, a failed write, a
\* failed external call, a dict that changed size under its iterator.
Errors == {"ValueError", "UnboundLocalError", "ExtractError", "OSError", "ExternalCallFailure",
           "RuntimeError"}

\* A tools/call request: the tool named, and whether `arguments` holds the
\* argument the tool requires (url, sequence_id; get-changes requires none).
Request(tool, arg) == [tool |-> tool, arg |-> arg]

NoRequest == Request("none", FALSE)

Call(what, arg, ok) == [call |-> what, arg |-> arg, ok |-> ok]

TrackerKeys == [names |-> Keys(companies), ids |-> ContactIds(contacts)]

NoKeys == [names |-> {}, ids |-> {}]

\* A tool call that is not enrich-contacts begins: the locals of the enrich
\* branch do not exist.
NoRun == /\ idx' = 0
         /\ new_contacts' = <<>>
         /\ at_start' = TrackerKeys

\* No handler has run in this process.
NoLocals == /\ idx' = 0
            /\ new_contacts' = <<>>
            /\ at_start' = NoKeys
            /\ request' = NoRequest

CanCall == status = "up" /\ pc = "idle" /\ calls_left > 0

\* ------------------------------------------------------ EventTracker
\* load_data without line 50: last_check stays the None of __init__.
load_data_no_last_check(f) ==
    CASE f.kind = "json" -> [ok |-> TRUE, companies |-> f.companies, contacts |-> f.contacts,
                             last_check |-> NoneTs]
      [] f.kind = "absent" -> [ok |-> TRUE, companies |-> <<>>, contacts |-> {}, last_check |-> NoneTs]
      [] OTHER -> [ok |-> FALSE, companies |-> <<>>, contacts |-> {}, last_check |-> NoneTs]

\* load_data with json.loads inside a try whose except clause passes.
load_data_lenient(f) ==
    CASE f.kind = "json" -> [ok |-> TRUE, companies |-> f.companies, contacts |-> f.contacts,
                             last_check |-> f.last_check]
      [] OTHER -> [ok |-> TRUE, companies |-> <<>>, contacts |-> {}, last_check |-> NoneTs]

\* __init__ followed by load_data: no file, the empty tracker; a JSON file,
\* its three entries (timestamps stay the strings the file holds); anything
\* else makes json.loads raise.
load_data(f) ==
    CASE f.kind = "absent" -> [ok |-> TRUE, companies |-> <<>>, contacts |-> {}, last_check |-> NoneTs]
      [] f.kind = "json" -> [ok |-> TRUE, companies |-> f.companies, contacts |-> f.contacts,
                             last_check |-> f.last_check]
      [] OTHER -> [ok |-> FALSE, companies |-> <<>>, contacts |-> {}, last_check |-> NoneTs]

\* What a handler does once save_data ended with `outcome`: return `ret`,
\* raise the OSError, or nothing (the process is gone, its memory with it).
AfterSave(op, outcome, cs, ct, lc, ret) ==
    /\ outcome # "written" => faults_left > 0
    /\ faults_left' = IF outcome = "written" THEN faults_left ELSE faults_left - 1
    /\ file' = save_data(file, cs, ct, lc, outcome)
    /\ was_set' = (was_set \/ lc # NoneTs)
    /\ IF outcome = "killed"
       THEN /\ status' = "down"
            /\ companies' = <<>>
            /\ contacts' = {}
            /\ last_check' = NoneTs
            /\ result' = NoResult
            /\ log' = <<>>
            /\ NoLocals
       ELSE /\ status' = "up"
            /\ companies' = cs
            /\ contacts' = ct
            /\ last_check' = lc
            /\ result' = IF outcome = "written" THEN ret ELSE Raised(op, "OSError")
            /\ log' = Append(log, Call("save", "", outcome = "written"))
            /\ UNCHANGED <<idx, new_contacts, at_start, request>>
    /\ pc' = "idle"

\* ------------------------------------------------- scan-event-website
\* Line 190 written as tracker.companies[company.name] = company.
Reobserve_replaced(tracked, company, now) == [company EXCEPT !.last_seen = now]

\* Line 190 written as ....first_seen = now.
Reobserve_first_seen(tracked, company, now) == [tracked EXCEPT !.first_seen = now]

\* Line 190: a company already tracked keeps its record, last_seen moves.
Reobserve(tracked, company, now) == [tracked EXCEPT !.last_seen = now]

\* Lines 188-192 written as tracker.companies = {c.name: c for c in companies}.
MergeCompanies_replaced(cs, observed, now) == observed

\* Lines 188-192.
RECURSIVE MergeCompanies(_, _, _)
MergeCompanies(cs, observed, now) ==
    IF observed = <<>> THEN cs
    ELSE LET company == Head(observed)
         IN  IF company.name \in Keys(cs)
             THEN MergeCompanies(
                      [cs EXCEPT ![IndexOf(cs, company.name)] = Reobserve(@, company, now)],
                      Tail(observed), now)
             ELSE MergeCompanies(Append(cs, company), Tail(observed), now)

NamesOf(observed) == [i \in 1..Len(observed) |-> observed[i].name]

\* Lines 180-181 left out: the handler goes on to extract_companies(None).
ScanInvalid_unchecked ==
    /\ CanCall
    /\ calls_left' = calls_left - 1
    /\ request' = Request("scan", FALSE)
    /\ pc' = "extracting"
    /\ result' = NoResult
    /\ log' = <<Call("extract", "url", TRUE)>>
    /\ NoRun
    /\ UNCHANGED <<companies, contacts, last_check, file, status, clock, was_set,
                   faults_left>>

\* Lines 180-181: no url.
ScanInvalid ==
    /\ CanCall
    /\ calls_left' = calls_left - 1
    /\ request' = Request("scan", FALSE)
    /\ result' = Raised("scan", "ValueError")
    /\ log' = <<>>
    /\ NoRun
    /\ UNCHANGED <<companies, contacts, last_check, file, status, clock, pc, was_set,
                   faults_left>>

\* Lines 183-184: the handler awaits extract_companies(url).
ScanCall ==
    /\ CanCall
    /\ calls_left' = calls_left - 1
    /\ request' = Request("scan", TRUE)
    /\ pc' = "extracting"
    /\ result' = NoResult
    /\ log' = <<Call("extract", "url", TRUE)>>
    /\ NoRun
    /\ UNCHANGED <<companies, contacts, last_check, file, status, clock, was_set,
                   faults_left>>

\* Line 194 moved before the await of line 184.
ScanExtractFail_stamped ==
    /\ status = "up" /\ pc = "extracting"
    /\ pc' = "idle"
    /\ result' = Raised("scan", "ExtractError")
    /\ log' = <<Call("extract", "url", FALSE)>>
    /\ last_check' = Dt(clock)
    /\ UNCHANGED <<companies, contacts, file, status, clock, idx,
                   new_contacts, at_start, request, was_set, calls_left, faults_left>>

\* extract_companies raises (the GET fails, an entry has no .name or no link).
ScanExtractFail ==
    /\ status = "up" /\ pc = "extracting"
    /\ pc' = "idle"
    /\ result' = Raised("scan", "ExtractError")
    /\ log' = <<Call("extract", "url", FALSE)>>
    /\ UNCHANGED <<companies, contacts, last_check, file, status, clock, idx,
                   new_contacts, at_start, request, was_set, calls_left, faults_left>>

\* Lines 184-203.
ScanReturn ==
    /\ status = "up" /\ pc = "extracting"
    /\ \E page \in Pages : \E r \in Readings(clock, Len(page)) : \E outcome \in SaveOutcomes :
         LET observed == extract_companies(page, r)
             now == Dt(r[2 * Len(page) + 1])
         IN  /\ clock' = now.t
             /\ AfterSave("scan", outcome, MergeCompanies(companies, observed, now),
                          contacts, now,
                          Returned("scan", "text", Len(observed), NamesOf(observed)))
    /\ UNCHANGED calls_left

\* ----------------------------------------------------- enrich-contacts
Contact(id, company) == [apollo_id |-> id, company |-> company]

\* Line 228 left out.
MergeContact_skipped(ct, contact) == ct

\* Line 228: tracker.contacts[contact.apollo_id] = contact.
MergeContact(ct, contact) ==
    {c \in ct : c.apollo_id # contact.apollo_id} \cup {contact}

\* Lines 220-228 for one answer of search_people.
RECURSIVE MergePeople(_, _, _)
MergePeople(ct, people, company) ==
    IF people = <<>> THEN ct
    ELSE MergePeople(MergeContact(ct, Contact(Head(people), company)), Tail(people), company)

\* Line 229, for one answer: every contact built is appended.
Accumulate(batch, people) == batch \o people

\* The answers search_people can give: one id per person.
Answers == SeqsUpTo(Ids, MaxPeople)

LoopDone == idx > Len(companies)

\* Line 213 iterates tracker.companies.values(): the iterator remembers the
\* size the dict had when the loop began and raises RuntimeError at its next
\* step once the size differs.
DictResized == Len(companies) # Cardinality(at_start.names)

\* Lines 206-207: no sequence_id.
EnrichInvalid ==
    /\ CanCall
    /\ calls_left' = calls_left - 1
    /\ request' = Request("enrich", FALSE)
    /\ result' = Raised("enrich", "ValueError")
    /\ log' = <<>>
    /\ NoRun
    /\ UNCHANGED <<companies, contacts, last_check, file, status, clock, pc, was_set,
                   faults_left>>

\* Lines 209-213: the loop over tracker.companies.values() begins.
EnrichCall ==
    /\ CanCall
    /\ calls_left' = calls_left - 1
    /\ request' = Request("enrich", TRUE)
    /\ pc' = "loop"
    /\ idx' = 1
    /\ new_contacts' = <<>>
    /\ at_start' = TrackerKeys
    /\ result' = NoResult
    /\ log' = <<>>
    /\ UNCHANGED <<companies, contacts, last_check, file, status, clock, was_set,
                   faults_left>>

\* Lines 214-232: the search answers; its people are merged and appended,
\* then the handler sleeps.
EnrichSearchOk ==
    /\ status = "up" /\ pc = "loop" /\ ~DictResized /\ ~LoopDone
    /\ \E people \in Answers :
         /\ contacts' = MergePeople(contacts, people, companies[idx].name)
         /\ new_contacts' = Accumulate(new_contacts, people)
    /\ log' = log \o <<Call("search", companies[idx].name, TRUE), Call("sleep", "", TRUE)>>
    /\ idx' = idx + 1
    /\ UNCHANGED <<companies, last_check, file, status, clock, pc, at_start,
                   result, request, was_set, calls_left, faults_left>>

\* Lines 234-238 without the except clause: the exception leaves the handler.
EnrichSearchFail_raised ==
    /\ status = "up" /\ pc = "loop" /\ ~DictResized /\ ~LoopDone
    /\ log' = Append(log, Call("search", companies[idx].name, FALSE))
    /\ pc' = "idle"
    /\ result' = Raised("enrich", "ExternalCallFailure")
    /\ UNCHANGED <<companies, contacts, last_check, file, status, clock, idx,
                   new_contacts, at_start, request, was_set, calls_left, faults_left>>

\* Lines 234-238: the search raises; the except clause builds a log message
\* and the loop goes on.  The sleep of line 232 is inside the try, after the
\* call, and is skipped.
EnrichSearchFail ==
    /\ status = "up" /\ pc = "loop" /\ ~DictResized /\ ~LoopDone
    /\ log' = Append(log, Call("search", companies[idx].name, FALSE))
    /\ idx' = idx + 1
    /\ UNCHANGED <<companies, contacts, last_check, file, status, clock, pc,
                   new_contacts, at_start, result, request, was_set, calls_left,
                   faults_left>>

\* Lines 241-251 without the test of line 241.
EnrichEnroll_always ==
    /\ status = "up" /\ pc = "loop" /\ ~DictResized /\ LoopDone
    /\ \E ok \in BOOLEAN : log' = Append(log, Call("enroll", "sequence_id", ok))
    /\ pc' = "saving"
    /\ UNCHANGED <<companies, contacts, last_check, file, status, clock, idx,
                   new_contacts, at_start, result, request, was_set, calls_left,
                   faults_left>>

\* Lines 241-251 without the try: a failure of add_to_sequence leaves the
\* handler before line 253.
EnrichEnroll_raises ==
    /\ status = "up" /\ pc = "loop" /\ ~DictResized /\ LoopDone
    /\ new_contacts # <<>>
    /\ \E ok \in BOOLEAN :
         /\ log' = Append(log, Call("enroll", "sequence_id", ok))
         /\ pc' = IF ok THEN "saving" ELSE "idle"
         /\ result' = IF ok THEN result ELSE Raised("enrich", "ExternalCallFailure")
    /\ UNCHANGED <<companies, contacts, last_check, file, status, clock, idx,
                   new_contacts, at_start, request, was_set, calls_left, faults_left>>

\* Lines 241-251: add_to_sequence, whose failure is caught.
EnrichEnroll ==
    /\ status = "up" /\ pc = "loop" /\ ~DictResized /\ LoopDone
    /\ new_contacts # <<>>
    /\ \E ok \in BOOLEAN : log' = Append(log, Call("enroll", "sequence_id", ok))
    /\ pc' = "saving"
    /\ UNCHANGED <<companies, contacts, last_check, file, status, clock, idx,
                   new_contacts, at_start, result, request, was_set, calls_left,
                   faults_left>>

\* Lines 253-260.
EnrichReturn ==
    /\ status = "up"
    /\ \/ pc = "saving"
       \/ pc = "loop" /\ ~DictResized /\ LoopDone /\ new_contacts = <<>>
    /\ \E outcome \in SaveOutcomes :
         AfterSave("enrich", outcome, companies, contacts, last_check,
                   Returned("enrich", "text", Len(new_contacts), <<>>))
    /\ UNCHANGED <<clock, calls_left>>

\* Line 213 when the dict changed size while the run was suspended: the
\* RuntimeError is raised by the for statement, outside the try of line 214,
\* and leaves the handler before lines 241-253.
EnrichIterationError ==
    /\ status = "up" /\ pc = "loop" /\ DictResized
    /\ pc' = "idle"
    /\ result' = Raised("enrich", "RuntimeError")
    /\ UNCHANGED <<companies, contacts, last_check, file, status, clock, idx,
                   new_contacts, at_start, log, request, was_set, calls_left,
                   faults_left>>

\* The enrich run is suspended in the sleep of line 232.
Sleeping == status = "up" /\ pc = "loop" /\ log # <<>> /\ log[Len(log)].call = "sleep"

\* Lines 183-203 of a scan-event-website call that the host dispatched while
\* the enrich run sleeps: nothing in handle_call_tool holds a lock, so the
\* scan merges and saves before the run goes on.
ScanDuringEnrich ==
    /\ Sleeping /\ calls_left > 0
    /\ calls_left' = calls_left - 1
    /\ \E page \in Pages : \E r \in Readings(clock, Len(page)) :
         LET observed == extract_companies(page, r)
             now == Dt(r[2 * Len(page) + 1])
         IN  /\ clock' = now.t
             /\ companies' = MergeCompanies(companies, observed, now)
             /\ last_check' = now
             /\ file' = save_data(file, companies', contacts, now, "written")
    /\ was_set' = TRUE
    /\ UNCHANGED <<contacts, status, pc, idx, new_contacts, at_start, log, result,
                   request, faults_left>>

\* --------------------------------------------------------- get-changes
\* Line 263 written as `if tracker.last_check:`.
NoPreviousScan_inverted(lc) == lc.k # "none"

\* Line 263.
NoPreviousScan(lc) == lc.k = "none"

\* Lines 263-271 followed by line 194.
GetChanges_stamps ==
    /\ CanCall
    /\ calls_left' = calls_left - 1
    /\ request' = Request("get-changes", TRUE)
    /\ result' = IF NoPreviousScan(last_check)
                 THEN Returned("get-changes", "noprior", 0, <<>>)
                 ELSE Raised("get-changes", "UnboundLocalError")
    /\ last_check' = Dt(clock)
    /\ log' = <<>>
    /\ NoRun
    /\ UNCHANGED <<companies, contacts, file, status, clock, pc, was_set, faults_left>>

\* Lines 263-271.  With last_check set the handler evaluates
\* extract_companies(url): url is a local of handle_call_tool that only the
\* scan branch assigns, so the name is unbound and the call is never made.
GetChanges ==
    /\ CanCall
    /\ calls_left' = calls_left - 1
    /\ request' = Request("get-changes", TRUE)
    /\ result' = IF NoPreviousScan(last_check)
                 THEN Returned("get-changes", "noprior", 0, <<>>)
                 ELSE Raised("get-changes", "UnboundLocalError")
    /\ log' = <<>>
    /\ NoRun
    /\ UNCHANGED <<companies, contacts, last_check, file, status, clock, pc, was_set,
                   faults_left>>

\* Lines 287-288.
UnknownTool ==
    /\ CanCall
    /\ calls_left' = calls_left - 1
    /\ request' = Request("unknown", TRUE)
    /\ result' = Raised("unknown", "ValueError")
    /\ log' = <<>>
    /\ NoRun
    /\ UNCHANGED <<companies, contacts, last_check, file, status, clock, pc, was_set,
                   faults_left>>

\* ------------------------------------------------------------- process
Forget ==
    /\ companies' = <<>>
    /\ contacts' = {}
    /\ last_check' = NoneTs
    /\ pc' = "idle"
    /\ result' = NoResult
    /\ log' = <<>>
    /\ NoLocals

\* The process ends between two tool calls.  (Ended at an await it leaves
\* the same file and the same empty memory; ended inside save_data it is
\* the outcome "killed".)
Stop ==
    /\ status = "up" /\ pc = "idle"
    /\ status' = "down"
    /\ Forget
    /\ UNCHANGED <<file, clock, was_set, calls_left, faults_left>>

\* Line 62 at the next start: EventTracker(Path("event_data.json")).
Restart ==
    /\ status = "down"
    /\ LET t == load_data(file)
       IN  /\ status' = IF t.ok THEN "up" ELSE "broken"
           /\ companies' = t.companies
           /\ contacts' = t.contacts
           /\ last_check' = t.last_check
    /\ pc' = "idle"
    /\ result' = NoResult
    /\ log' = <<>>
    /\ NoLocals
    /\ UNCHANGED <<file, clock, was_set, calls_left, faults_left>>

\* ------------------------------------------------------- specification
\* The tracker of a first start (no event_data.json), no handler running.
Fresh ==
    /\ companies = <<>>
    /\ contacts = {}
    /\ last_check = NoneTs
    /\ file = EmptyFile
    /\ status = "up"
    /\ clock = 0
    /\ pc = "idle"
    /\ idx = 0
    /\ new_contacts = <<>>
    /\ at_start = NoKeys
    /\ log = <<>>
    /\ result = NoResult
    /\ request = NoRequest
    /\ was_set = FALSE

Tools ==
    \/ ScanInvalid
    \/ ScanCall
    \/ ScanExtractFail
    \/ ScanReturn
    \/ EnrichInvalid
    \/ EnrichCall
    \/ EnrichSearchOk
    \/ EnrichSearchFail
    \/ EnrichEnroll
    \/ EnrichReturn
    \/ GetChanges
    \/ UnknownTool

\* Spec: the tools over a file system that writes every snapshot and a
\* process that keeps running.
Init == Fresh /\ calls_left = MaxCalls /\ faults_left = 0

Next == Tools

Spec == Init /\ [][Next]_vars

\* SpecStore: the same tools when a write of the snapshot can fail and the
\* process can stop and start again.
InitStore == Fresh /\ calls_left = MaxCalls - 1 /\ faults_left = MaxFaults

NextStore ==
    \/ Tools
    \/ Stop
    \/ Restart

SpecStore == InitStore /\ [][NextStore]_vars

\* SpecConc: the tools when the host does not wait for an enrich-contacts
\* call to end before it dispatches a scan-event-website call.
NextConc ==
    \/ Tools
    \/ ScanDuringEnrich
    \/ EnrichIterationError

SpecConc == Init /\ [][NextConc]_vars

\* ===================================================== checked properties
Searches == SelectSeq(log, LAMBDA e : e.call = "search")

\* An enrich-contacts call that passed the check of its argument has ended.
EnrichEnded == status = "up" /\ pc = "idle" /\ result.op = "enrich" /\ result.kind # "ValueError"

\* A scan-event-website call has merged what it extracted and has ended.
ScanEnded == status = "up" /\ pc = "idle" /\ result.op = "scan" /\ result.kind \in {"text", "OSError"}

HasDuplicates(q) == \E i \in 1..Len(q) : \E j \in 1..Len(q) : i # j /\ q[i] = q[j]

\* C1: an enrich-contacts run never raises because searches failed: whatever
\* searches fail, search is called once for every tracked company in order,
\* the ids of the successful searches are keys of the contact mapping, and
\* the run returns "Added N contacts to sequence" with N the length of the
\* batch (the only exception that can leave the run is a failed write of the
\* snapshot).
C1_SearchFailuresIsolated ==
    EnrichEnded =>
        /\ result.kind \in {"text", "OSError"}
        /\ result.kind = "text" => result.n = Len(new_contacts)
        /\ [i \in 1..Len(Searches) |-> Searches[i].arg] = NamesOf(companies)
        /\ Range(new_contacts) \subseteq ContactIds(contacts)

\* A run over two companies in which the first search failed, the second
\* succeeded and gave a contact, and which returned normally.
C1_Witness ==
    /\ EnrichEnded /\ result.kind = "text" /\ result.n > 0
    /\ Len(Searches) = 2 /\ ~Searches[1].ok /\ Searches[2].ok

\* C2 (as claimed): when an enrich-contacts run returns, the batch holds
\* exactly the ids that were not keys of the contact mapping before the run
\* merged them, each once, and N is their number.
C2_BatchIsNewIdsOnce ==
    (EnrichEnded /\ result.kind = "text") =>
        /\ ~HasDuplicates(new_contacts)
        /\ Range(new_contacts) = ContactIds(contacts) \ at_start.ids
        /\ result.n = Cardinality(ContactIds(contacts) \ at_start.ids)

\* C3: after an enrich-contacts run every id a successful search returned is
\* a key of the contact mapping, with one entry per key; and a run whose
\* searches returned only ids that were keys already leaves the number of
\* entries as it was.
C3_ReturnedIdsAreKeys ==
    EnrichEnded =>
        /\ Range(new_contacts) \subseteq ContactIds(contacts)
        /\ Cardinality(contacts) = Cardinality(ContactIds(contacts))
        /\ Range(new_contacts) \subseteq at_start.ids =>
               Cardinality(contacts) = Cardinality(at_start.ids)

\* A run whose searches returned an id, all of them keys before the run.
C3_Witness ==
    /\ EnrichEnded /\ new_contacts # <<>>
    /\ Range(new_contacts) \subseteq at_start.ids

\* C4 (as claimed): with last_check set, get-changes does not end in an error.
C4_GetChangesCompletes ==
    (status = "up" /\ result.op = "get-changes" /\ last_check # NoneTs) =>
        result.kind \notin Errors

\* C5 (as claimed): with last_check set, get-changes returns the diff of the
\* tracked names A and some observed names B: added = B \ A, removed = A \ B,
\* with no name in both.
C5_DiffIsSetDifference ==
    (status = "up" /\ result.op = "get-changes" /\ last_check # NoneTs) =>
        \E B \in SUBSET Names :
            /\ result.kind = "diff"
            /\ result.added = B \ Keys(companies)
            /\ result.removed = Keys(companies) \ B
            /\ result.added \cap result.removed = {}

\* C6: a get-changes call made while last_check is unset returns the "No
\* previous scan to compare with" result, not a diff and not an error, makes
\* no external call and leaves companies, contacts, last_check and the
\* snapshot as they were.
C6_NoPriorScanIsInformational ==
    [][(/\ status = "up" /\ pc = "idle" /\ last_check = NoneTs
        /\ calls_left' < calls_left /\ result'.op = "get-changes")
       => (/\ result' = Returned("get-changes", "noprior", 0, <<>>)
           /\ log' = <<>>
           /\ pc' = "idle"
           /\ UNCHANGED <<companies, contacts, last_check, file, status>>)]_vars

\* The informational result has been returned.
C6_Witness ==
    /\ result.op = "get-changes" /\ result.kind = "noprior"
    /\ last_check = NoneTs

\* C7: a scan changes nothing but last_seen in the record of a company that
\* was tracked before it: name, website, type and first_seen stay, the
\* records keep their order, and last_seen is the scan's now (last_check)
\* for an observed company and unchanged for any other.
C7_ReobservationMovesLastSeenOnly ==
    [][(/\ status = "up" /\ pc = "extracting"
        /\ status' = "up" /\ pc' = "idle" /\ result'.kind \in {"text", "OSError"})
       => (/\ Len(companies') >= Len(companies)
           /\ \A i \in 1..Len(companies) :
                /\ companies'[i].name = companies[i].name
                /\ companies'[i].website = companies[i].website
                /\ companies'[i].type = companies[i].type
                /\ companies'[i].first_seen = companies[i].first_seen
                /\ companies'[i].last_seen \in {companies[i].last_seen, last_check'}
                /\ result'.kind = "text" =>
                       companies'[i].last_seen =
                           IF companies[i].name \in Range(result'.names)
                           THEN last_check' ELSE companies[i].last_seen)]_vars

\* A scan has observed a company that was tracked before it, later than the
\* company was first seen.
C7_Witness ==
    /\ ScanEnded /\ result.kind = "text"
    /\ \E i \in 1..Len(companies) :
         /\ companies[i].name \in Range(result.names) \cap at_start.names
         /\ companies[i].first_seen.t < last_check.t
         /\ companies[i].last_seen = last_check

\* C8 (as claimed): right after a scan every company observed in it has
\* last_seen = last_check, and a company the scan inserted has
\* first_seen = last_seen = last_check.
C8_InsertedAtNow ==
    (ScanEnded /\ result.kind = "text") =>
        \A i \in 1..Len(companies) :
            companies[i].name \in Range(result.names) =>
                /\ companies[i].last_seen = last_check
                /\ companies[i].name \notin at_start.names =>
                       companies[i].first_seen = last_check

\* C9: every tracked company has last_seen >= first_seen.
C9_LastSeenNotBeforeFirstSeen ==
    \A i \in 1..Len(companies) : companies[i].last_seen.t >= companies[i].first_seen.t

\* An enrich-contacts or get-changes call has ended with a company tracked
\* whose last_seen is later than its first_seen.
C9_Witness ==
    /\ status = "up" /\ pc = "idle" /\ result.op \in {"enrich", "get-changes"}
    /\ \E i \in 1..Len(companies) : companies[i].last_seen.t > companies[i].first_seen.t

\* C10 (as claimed): whatever happens during save_data, the file a later
\* load_data reads is a complete snapshot (or absent, before the first
\* save): load_data never finds an empty or half-written file.
C10_SaveAllOrNothing ==
    /\ file.kind \in {"absent", "json"}
    /\ status # "broken"

\* The tracker as the load_data of a process start left it: no tool call
\* has been handled since.
JustLoaded == status = "up" /\ pc = "idle" /\ request = NoRequest

\* C11: a tracker that load_data built from a snapshot serialises to that
\* same snapshot, timestamps compared as the strings the file holds: saving
\* it again writes the file it was loaded from.
C11_RoundTrip ==
    (JustLoaded /\ file.kind = "json") =>
        save_data(file, companies, contacts, last_check, "written") = file

\* A process started from a snapshot that holds companies, contacts and a
\* last_check.
C11_Witness ==
    /\ JustLoaded /\ file.kind = "json"
    /\ companies # <<>> /\ contacts # {} /\ last_check.k = "str"

\* C12: a scan-event-website call without url and an enrich-contacts call
\* without sequence_id end at once in a ValueError: companies, contacts,
\* last_check and the file stay as they were, no external call is made and
\* save_data is not called.
C12_MissingArgumentRejected ==
    [][(calls_left' < calls_left /\ request'.tool \in {"scan", "enrich"} /\ ~request'.arg) =>
          /\ result' = Raised(request'.tool, "ValueError")
          /\ pc' = "idle"
          /\ log' = <<>>
          /\ UNCHANGED <<companies, contacts, last_check, file>>]_vars

\* An enrich-contacts call without sequence_id was made on a tracker that
\* holds companies, and has ended.
C12_Witness ==
    /\ request = Request("enrich", FALSE) /\ pc = "idle"
    /\ result.kind = "ValueError" /\ companies # <<>>

C15_DelayBetweenSearches ==
    \A i \in 1..Len(log) : \A j \in 1..Len(log) :
        (i < j /\ log[i].call = "search" /\ log[j].call = "search") =>
            \E k \in (i + 1)..(j - 1) : log[k].call = "sleep"

Enrolls == SelectSeq(log, LAMBDA e : e.call = "enroll")

\* C16: an enrich-contacts run calls add_to_sequence at most once, only
\* after every tracked company has been searched, and exactly when
\* new_contacts is not empty; with no company tracked the run makes no
\* external call and reports 0 contacts.
C16_EnrollOnceAfterSearches ==
    (status = "up" /\ request = Request("enrich", TRUE)) =>
        /\ Len(Enrolls) <= 1
        /\ \A i \in 1..Len(log) :
               log[i].call = "enroll" =>
                   /\ new_contacts # <<>>
                   /\ Len(Searches) = Len(companies)
                   /\ \A j \in 1..Len(log) : log[j].call = "search" => j < i
        /\ EnrichEnded =>
               /\ (Len(Enrolls) = 1) <=> (new_contacts # <<>>)
               /\ companies = <<>> =>
                      /\ \A i \in 1..Len(log) : log[i].call = "save"
                      /\ result.kind = "text" /\ result.n = 0

\* A run has searched, enrolled its batch, saved and ended.
C16_Witness ==
    /\ EnrichEnded /\ request = Request("enrich", TRUE)
    /\ Len(Enrolls) = 1 /\ Len(Searches) >= 1 /\ log[Len(log) - 1].call = "enroll"

\* C17: an enrich-contacts run that passed the check of its argument ends
\* with a call of save_data, whatever search or enrolment failed; a failed
\* add_to_sequence is not raised: the run returns its text and the contacts
\* it merged are in the file.
C17_EnrichAlwaysSaves ==
    EnrichEnded =>
        /\ log # <<>> /\ log[Len(log)].call = "save"
        /\ result.kind = "text"
        /\ file = Snapshot(companies, contacts, last_check)
        /\ Range(new_contacts) \subseteq ContactIds(file.contacts)

\* A run has ended whose add_to_sequence failed.
C17_Witness ==
    /\ EnrichEnded /\ result.kind = "text" /\ new_contacts # <<>>
    /\ \E i \in 1..Len(log) : log[i].call = "enroll" /\ ~log[i].ok

\* C18 (as claimed): once line 194 has set last_check, every tracker that
\* is up, in this process or after a restart, has last_check set.
C18_NeverUnset == (status = "up" /\ was_set) => last_check # NoneTs

\* C18 (amended): last_check goes from None to a value only in the scan
\* handler after its extraction returned; a scan whose extraction raises
\* leaves companies, contacts, last_check and the file as they were; no
\* step of a running process unsets last_check; and once the file holds a
\* last_check, every complete file written later holds one and every
\* tracker that is up holds one.
C18_SetByScanKeptOnceSaved ==
    [][/\ (status = "up" /\ last_check = NoneTs /\ last_check' # NoneTs) =>
              (request.tool = "scan" /\ pc = "extracting" /\ result'.kind # "ExtractError")
       /\ (pc = "extracting" /\ result'.kind = "ExtractError") =>
              UNCHANGED <<companies, contacts, last_check, file>>
       /\ (status = "up" /\ status' = "up" /\ last_check # NoneTs) => last_check' # NoneTs
       /\ (file.kind = "json" /\ file.last_check # NoneTs) =>
              (file'.kind = "torn" \/ (file'.kind = "json" /\ file'.last_check # NoneTs))
       /\ (status' = "up" /\ file'.kind = "json" /\ file'.last_check # NoneTs) =>
              last_check' # NoneTs]_vars

\* A process started from a snapshot whose last_check is set, and a scan of
\* it failed at the extraction.
C18_Witness ==
    /\ status = "up" /\ pc = "idle" /\ result.kind = "ExtractError"
    /\ at_start.names # {} /\ last_check.k = "str" /\ file.last_check = last_check

\* C19: no step removes a key of companies or of contacts.
C19_KeysOnlyGrow ==
    [][/\ Keys(companies) \subseteq Keys(companies')
       /\ ContactIds(contacts) \subseteq ContactIds(contacts')]_vars

\* A scan has ended whose page lacked a company tracked before it, and the
\* company is still tracked.
C19_Witness ==
    /\ ScanEnded /\ result.kind = "text"
    /\ \E n \in at_start.names : n \notin Range(result.names) /\ n \in Keys(companies)

\* C20: a step of the scan handler leaves contacts alone; a step of the
\* enrich handler leaves companies and last_check alone; get-changes and a
\* call of an unknown tool leave companies, contacts, last_check and the
\* file alone, and the unknown tool ends in an exception.
C20_Frame ==
    [][/\ request'.tool = "scan" => contacts' = contacts
       /\ request'.tool = "enrich" => (companies' = companies /\ last_check' = last_check)
       /\ request'.tool \in {"get-changes", "unknown"} =>
              UNCHANGED <<companies, contacts, last_check, file>>
       /\ request'.tool = "unknown" => (result'.kind \in Errors /\ pc' = "idle")]_vars

\* An unknown tool was called on a tracker that holds companies and
\* contacts.
C20_Witness ==
    /\ request.tool = "unknown" /\ result = Raised("unknown", "ValueError")
    /\ companies # <<>> /\ contacts # {}

====
